---- MODULE Spec2Model ----
(***************************************************************************)
(* Model of the dynamic class support of the oso Rust host library:        *)
(*   languages/rust/oso/src/host/class.rs     (Class, Instance)            *)
(*   languages/rust/oso/src/host/to_polar.rs  (ToPolar, ToPolarResults)    *)
(*                                                                         *)
(* Spec       : one descriptor under the whole builder and both            *)
(*              construction paths (cast_to_instance, init).               *)
(* SpecEq     : two descriptors, the operations equality depends on, and   *)
(*              Class::equals / Instance::equals.                          *)
(* SpecInit   : two descriptors, the operations construction depends on,   *)
(*              init and is_instance.                                      *)
(* SpecTables : two descriptors, the registrations into the three method   *)
(*              tables and the class-as-value conversion.                  *)
(* SpecConv   : the ToPolarResults conversion of plain values, Option,     *)
(*              Result and PolarIter into a sequence of results.           *)
(* Spec leaves out the queries and the class-as-value conversion, which     *)
(* read a descriptor without changing it.  SpecEq, SpecInit and SpecTables  *)
(* leave out only operations that write none of the fields their           *)
(* properties read.                                                        *)
(***************************************************************************)
EXTENDS Integers, Sequences, FiniteSets, TLC

\* ------------------------------------------------------------------ bounds
\* number of builder mutations explored per behaviour
MaxOps == 2
\* number of Instance values created by cast_to_instance and init
MaxInstances == 1
\* number of descriptors converted to a term
MaxConversions == 2
\* longest iterator wrapped in a PolarIter
MaxLen == 3

\* ------------------------------------------------------------ input domains
\* descriptor slots held by the application
Slots == {1, 2}
\* native types T a Class<T> is created for
Types == {"Foo", "Bar"}
\* the unit type: the type parameter of an erased Class<()>
Unit == "()"
\* the native type of the meta-descriptor's payloads (a Class value)
ClassType == "Class"
\* names passed to name(n)
Names == {"A", "B"}
\* names methods and attributes are registered under
MethodNames == {"m", "n"}
\* implementations (closures) passed to the add_* operations
Impls == {1, 2}
\* closures passed to set_constructor
CtorFns == {"default", "from_int"}
\* closures passed to set_equality_check
EqFns == {"by_val", "always"}
\* native values
Vals == {1, 2}
\* argument lists passed to init
ArgLists == {<<>>, <<1>>}

\* std::any::type_name::<T>()
TypeName(T) == IF T = "Foo" THEN "app::Foo"
               ELSE IF T = "Bar" THEN "app::Bar"
               ELSE IF T = ClassType THEN "oso::host::class::Class"
               ELSE "()"

VARIABLES
    classes,      \* slot -> Class value held by the application (or NoClass)
    type_class,   \* the host's meta-descriptor, host.type_class()
    instances,    \* the Instance values created so far; index = instance id
    ret,          \* the value returned by the last operation
    ops,          \* number of builder mutations performed
    registered,   \* history: slot -> table -> name -> last registration
    built,        \* history: slot -> the descriptor as build() returned it
    origin,       \* history: instance id -> slot of the creating descriptor
    converted,    \* history: class-method names of the descriptors converted
    input,        \* SpecConv: the value to_polar_results is called on
    iter,         \* SpecConv: the PolarResultIter, elements not yet yielded
    yielded,      \* SpecConv: the elements the iterator has yielded
    pc            \* SpecConv: position of the caller

vars == <<classes, type_class, instances, ret, ops, registered, built, origin,
          converted, input, iter, yielded, pc>>

classVars == <<classes, type_class, instances, ret, ops, registered, built,
               origin, converted>>
convVars == <<input, iter, yielded, pc>>

\* ------------------------------------------------------------------ values
NoClass == [absent |-> TRUE]
None == [tag |-> "None"]
EmptyTable == [x \in {} |-> 0]

\* OsoError::UnsupportedOperation { operation, type_name }
UnsupportedOperation(operation, type_name) ==
    [ok |-> FALSE, kind |-> "UnsupportedOperation",
     operation |-> operation, type_name |-> type_name]

\* OsoError::Custom { message }
Custom(message) == [ok |-> FALSE, kind |-> "Custom", message |-> message]

\* a downcast error after .user()
DowncastFailed(expected) ==
    [ok |-> FALSE, kind |-> "DowncastFailed", user |-> TRUE, expected |-> expected]

Ok(v) == [ok |-> TRUE, value |-> v]

\* HashMap::insert: last write wins
InsertIfAbsent(table, key, value) ==
    [k \in DOMAIN table \cup {key} |->
        IF k \in DOMAIN table THEN table[k] ELSE value]
Insert(table, key, value) ==
    [k \in DOMAIN table \cup {key} |-> IF k = key THEN value ELSE table[k]]

\* HashMap::entry(key).or_insert_with(value)
InsertOverwriting(table, key, value) ==
    [k \in DOMAIN table \cup {key} |-> IF k = key THEN value ELSE table[k]]
EntryOrInsert(table, key, value) ==
    [k \in DOMAIN table \cup {key} |->
        IF k \in DOMAIN table THEN table[k] ELSE value]

\* InstanceMethod::new(f), InstanceMethod::new_iterator(f),
\* InstanceMethod::from_class_method(name), ClassMethod::new(f)
InstanceMethodNew(f) == [kind |-> "method", f |-> f]
InstanceMethodNewIterator(f) == [kind |-> "iterator", f |-> f]
InstanceMethodFromClassMethod(name) == [kind |-> "from_class_method", f |-> name]
ClassMethodNew(f) == [kind |-> "class_method", f |-> f]

\* equality_not_supported(type_name): the closure captures type_name
equality_not_supported(type_name) == [kind |-> "unsupported", type_name |-> type_name]

\* Class::<T>::new()
ClassNew(T) ==
    [name |-> TypeName(T),
     constructor |-> None,
     attributes |-> EmptyTable,
     instance_methods |-> EmptyTable,
     class_methods |-> EmptyTable,
     type_id |-> T,
     instance_check |-> T,
     class_check |-> T,
     equality_check |-> equality_not_supported(TypeName(T)),
     ty |-> T]

\* a Class<()>: the receiver of cast_to_instance, init and to_polar_value
IsErased(c) == c # NoClass /\ c.ty = Unit

\* history of the registrations of one descriptor: per table the implementation
\* last registered under each name, and the number of registrations that met
\* a name already present
NoRegistrations ==
    [attributes |-> EmptyTable, instance_methods |-> EmptyTable,
     class_methods |-> EmptyTable, collisions |-> 0]

Collides(table, n) == IF n \in DOMAIN table THEN 1 ELSE 0

Self == [op |-> "self"]

\* --------------------------------------------------- closures of the library
\* Constructor::new(f): f returns a value of the builder's type parameter
ConstructorNew(T, f) == [tag |-> "Some", ty |-> T, f |-> f]

\* the closure f handed to set_equality_check, applied to two downcast values
ApplyEqFn(f, a, b) == IF f = "by_val" THEN a.val = b.val ELSE TRUE

\* downcast::<T>(any), with the error mapped through .user()
downcast(any, T) == IF any.ty = T THEN Ok(any) ELSE DowncastFailed(T)

\* Constructor::invoke(fields, host): decodes the arguments and calls f
Invoke(constructor, fields) ==
    IF constructor.f = "default"
    THEN IF Len(fields) = 0
         THEN Ok([ty |-> constructor.ty, val |-> 1])
         ELSE Custom(<<"invalid arguments", Len(fields)>>)
    ELSE IF Len(fields) = 1
         THEN Ok([ty |-> constructor.ty, val |-> fields[1]])
         ELSE Custom(<<"invalid arguments", Len(fields)>>)

\* (self.equality_check)(a, b) for the two closures a descriptor can hold
CallEqualityCheck(eq, a, b) ==
    IF eq.kind = "unsupported"
    THEN UnsupportedOperation("equals", eq.type_name)
    ELSE IF ~downcast(a, eq.ty).ok THEN downcast(a, eq.ty)
    ELSE IF ~downcast(b, eq.ty).ok THEN downcast(b, eq.ty)
    ELSE Ok(ApplyEqFn(eq.f, a, b))

\* (self.instance_check)(any): |any| any.is::<T>()
CallInstanceCheck(check, any) == any.ty = check

\* ------------------------------------------------- the builder, as functions
set_constructor(c, f) == [c EXCEPT !.constructor = ConstructorNew(c.ty, f)]

with_constructor(T, f) == set_constructor(ClassNew(T), f)

set_equality_check(c, f) ==
    [c EXCEPT !.equality_check = [kind |-> "check", ty |-> c.ty, f |-> f]]

with_equality_check(c) == set_equality_check(c, "by_val")

add_attribute_getter(c, n, f) ==
    [c EXCEPT !.attributes = Insert(@, n, InstanceMethodNew(f))]

name(c, n) == [c EXCEPT !.name = n]

add_method(c, n, f) ==
    [c EXCEPT !.instance_methods = Insert(@, n, InstanceMethodNew(f))]

add_iterator_method(c, n, f) ==
    [c EXCEPT !.instance_methods = Insert(@, n, InstanceMethodNewIterator(f))]

add_class_method(c, n, f) ==
    [c EXCEPT !.class_methods = Insert(@, n, ClassMethodNew(f))]

erase_type(c) ==
    [name |-> c.name,
     constructor |-> c.constructor,
     attributes |-> c.attributes,
     instance_methods |-> c.instance_methods,
     class_methods |-> c.class_methods,
     instance_check |-> c.instance_check,
     class_check |-> c.class_check,
     type_id |-> c.type_id,
     equality_check |-> c.equality_check,
     ty |-> Unit]

build(c) == erase_type(c)

is_class(c, C) == c.class_check = C

is_instance_by_class(c, instance) == instance.class.type_id = c.type_id
is_instance(c, instance) == CallInstanceCheck(c.instance_check, instance.instance)

equals(c, instance, other) ==
    CallEqualityCheck(c.equality_check, instance.instance, other.instance)

\* Instance::equals
Instance_equals(self, other) ==
    CallEqualityCheck(self.class.equality_check, self.instance, other.instance)

\* the Instance literal of cast_to_instance and init
NewInstance(c, payload) ==
    [name |-> c.name,
     instance |-> payload,
     attributes |-> c.attributes,
     methods |-> c.instance_methods,
     class |-> c]

cast_to_instance(c, payload) == NewInstance(c, payload)

init_stale_name(c, fields) ==
    IF c.constructor # None
    THEN LET r == Invoke(c.constructor, fields) IN
         IF r.ok THEN Ok(NewInstance(c, r.value)) ELSE r
    ELSE Custom(<<"MissingConstructorError: ", TypeName(c.type_id), " has no constructor">>)
init(c, fields) ==
    IF c.constructor # None
    THEN LET r == Invoke(c.constructor, fields) IN
         IF r.ok THEN Ok(NewInstance(c, r.value)) ELSE r
    ELSE Custom(<<"MissingConstructorError: ", c.name, " has no constructor">>)

\* ------------------------------------------------ the class-as-value bridge
\* the loop of to_polar_value over self.class_methods.keys()
RECURSIVE PatchTypeClass(_, _)
PatchTypeClass(table, keys) ==
    IF keys = {} THEN table
    ELSE LET k == CHOOSE x \in keys : TRUE IN
         PatchTypeClass(EntryOrInsert(table, k, InstanceMethodFromClassMethod(k)),
                        keys \ {k})

\* format!("type<{}>", name)
Repr(n) == <<"type<", n, ">">>

\* Value::ExternalInstance(ExternalInstance { constructor, repr, instance_id })
ExternalInstance(repr, instance_id) ==
    [constructor |-> None, repr |-> repr, instance_id |-> instance_id]

\* the meta-descriptor the host registers, with the instance methods it was
\* registered with
MetaClass(pre) ==
    build([ClassNew(ClassType) EXCEPT !.instance_methods = pre])

\* --------------------------------------------------------------- actions
CanBuild(s) == classes[s] # NoClass /\ ops < MaxOps

\* the frame of a builder operation on slot s that yields descriptor c
BuilderStep(s, c) ==
    /\ classes' = [classes EXCEPT ![s] = c]
    /\ ops' = ops + 1
    /\ ret' = Self
    /\ UNCHANGED <<type_class, instances, origin, converted, convVars>>

New(s, T) ==
    /\ classes[s] = NoClass
    /\ classes' = [classes EXCEPT ![s] = ClassNew(T)]
    /\ ret' = Self
    /\ UNCHANGED <<ops, registered, built, type_class, instances, origin,
                   converted, convVars>>

WithConstructor(s, T, f) ==
    /\ classes[s] = NoClass
    /\ ops < MaxOps
    /\ classes' = [classes EXCEPT ![s] = with_constructor(T, f)]
    /\ ops' = ops + 1
    /\ ret' = Self
    /\ UNCHANGED <<registered, built, type_class, instances, origin,
                   converted, convVars>>

SetConstructor(s, f) ==
    /\ CanBuild(s)
    /\ BuilderStep(s, set_constructor(classes[s], f))
    /\ UNCHANGED <<registered, built>>

SetEqualityCheck(s, f) ==
    /\ CanBuild(s)
    /\ BuilderStep(s, set_equality_check(classes[s], f))
    /\ UNCHANGED <<registered, built>>

WithEqualityCheck(s) ==
    /\ CanBuild(s)
    /\ BuilderStep(s, with_equality_check(classes[s]))
    /\ UNCHANGED <<registered, built>>

AddAttributeGetter(s, n, f) ==
    /\ CanBuild(s)
    /\ BuilderStep(s, add_attribute_getter(classes[s], n, f))
    /\ registered' = [registered EXCEPT
                          ![s].attributes = (n :> InstanceMethodNew(f)) @@ @,
                          ![s].collisions = @ + Collides(classes[s].attributes, n)]
    /\ UNCHANGED built

Name(s, n) ==
    /\ CanBuild(s)
    /\ BuilderStep(s, name(classes[s], n))
    /\ UNCHANGED <<registered, built>>

\* a descriptor whose tables its instances share instead of copying
AddMethodShared(s, n, f) ==
    /\ CanBuild(s)
    /\ classes' = [classes EXCEPT ![s] = add_method(classes[s], n, f)]
    /\ instances' = [i \in DOMAIN instances |->
                        IF origin[i] = s
                        THEN [instances[i] EXCEPT
                                 !.methods = classes'[s].instance_methods]
                        ELSE instances[i]]
    /\ ops' = ops + 1
    /\ ret' = Self
    /\ registered' = [registered EXCEPT
                          ![s].instance_methods = (n :> InstanceMethodNew(f)) @@ @,
                          ![s].collisions = @ + Collides(classes[s].instance_methods, n)]
    /\ UNCHANGED <<built, type_class, origin, converted, convVars>>
AddMethod(s, n, f) ==
    /\ CanBuild(s)
    /\ BuilderStep(s, add_method(classes[s], n, f))
    /\ registered' = [registered EXCEPT
                          ![s].instance_methods = (n :> InstanceMethodNew(f)) @@ @,
                          ![s].collisions = @ + Collides(classes[s].instance_methods, n)]
    /\ UNCHANGED built

AddIteratorMethod(s, n, f) ==
    /\ CanBuild(s)
    /\ BuilderStep(s, add_iterator_method(classes[s], n, f))
    /\ registered' = [registered EXCEPT
                          ![s].instance_methods = (n :> InstanceMethodNewIterator(f)) @@ @,
                          ![s].collisions = @ + Collides(classes[s].instance_methods, n)]
    /\ UNCHANGED built

AddClassMethod(s, n, f) ==
    /\ CanBuild(s)
    /\ BuilderStep(s, add_class_method(classes[s], n, f))
    /\ registered' = [registered EXCEPT
                          ![s].class_methods = (n :> ClassMethodNew(f)) @@ @,
                          ![s].collisions = @ + Collides(classes[s].class_methods, n)]
    /\ UNCHANGED built

Build(s) ==
    /\ CanBuild(s)
    /\ BuilderStep(s, build(classes[s]))
    /\ built' = [built EXCEPT ![s] = IF @ = NoClass THEN build(classes[s]) ELSE @]
    /\ UNCHANGED registered

\* the instances of the application's descriptors, and of the meta-descriptor
Native == {i \in DOMAIN instances : origin[i] # 0}
Meta == {i \in DOMAIN instances : origin[i] = 0}

CastToInstance(s, payload) ==
    /\ IsErased(classes[s])
    /\ Cardinality(Native) < MaxInstances
    /\ instances' = Append(instances, cast_to_instance(classes[s], payload))
    /\ origin' = Append(origin, s)
    /\ ret' = [op |-> "cast_to_instance", slot |-> s, id |-> Len(instances) + 1]
    /\ UNCHANGED <<classes, type_class, ops, registered, built, converted, convVars>>

InitCall(s, fields) ==
    /\ IsErased(classes[s])
    /\ LET r == init(classes[s], fields) IN
        /\ r.ok => Cardinality(Native) < MaxInstances
        /\ instances' = IF r.ok THEN Append(instances, r.value) ELSE instances
        /\ origin' = IF r.ok THEN Append(origin, s) ELSE origin
        /\ ret' = [op |-> "init", slot |-> s, fields |-> fields, result |-> r]
    /\ UNCHANGED <<classes, type_class, ops, registered, built, converted, convVars>>

IsInstanceCall(s, i) ==
    /\ classes[s] # NoClass
    /\ ret' = [op |-> "is_instance", slot |-> s, a |-> i,
               result |-> is_instance(classes[s], instances[i])]
    /\ UNCHANGED <<classes, type_class, instances, ops, registered, built,
                   origin, converted, convVars>>

EqualsCall(s, i, j) ==
    /\ classes[s] # NoClass
    /\ ret' = [op |-> "equals", slot |-> s, a |-> i, b |-> j,
               result |-> equals(classes[s], instances[i], instances[j])]
    /\ UNCHANGED <<classes, type_class, instances, ops, registered, built,
                   origin, converted, convVars>>

InstanceEqualsCall(i, j) ==
    /\ ret' = [op |-> "Instance::equals", a |-> i, b |-> j,
               result |-> Instance_equals(instances[i], instances[j])]
    /\ UNCHANGED <<classes, type_class, instances, ops, registered, built,
                   origin, converted, convVars>>

\* <Class as ToPolar>::to_polar_value(&self, host)
ToPolarValue(s) ==
    /\ IsErased(classes[s])
    /\ Cardinality(Meta) < MaxConversions
    /\ LET c == classes[s]
           patched == [type_class EXCEPT !.instance_methods =
                          PatchTypeClass(@, DOMAIN c.class_methods)]
           instance == cast_to_instance(patched, [ty |-> ClassType, val |-> c])
       IN
        /\ type_class' = patched
        /\ instances' = Append(instances, instance)
        /\ origin' = Append(origin, 0)
        /\ converted' = converted \cup DOMAIN c.class_methods
        /\ ret' = [op |-> "to_polar_value", slot |-> s,
                   value |-> ExternalInstance(Repr(c.name), Len(instances) + 1)]
    /\ UNCHANGED <<classes, ops, registered, built, convVars>>

Payloads == [ty : Types, val : Vals]

Init ==
    /\ classes = [s \in Slots |-> NoClass]
    /\ type_class \in {MetaClass(EmptyTable), MetaClass("m" :> InstanceMethodNew(1))}
    /\ instances = <<>>
    /\ ret = Self
    /\ ops = 0
    /\ registered = [s \in Slots |-> NoRegistrations]
    /\ built = [s \in Slots |-> NoClass]
    /\ origin = <<>>
    /\ converted = {}
    /\ input = [tag |-> "none"]
    /\ iter = <<>>
    /\ yielded = <<>>
    /\ pc = "idle"

\* The operations on the descriptors of the slots S, grouped by the fields
\* of a descriptor they write.
Create(S) ==
    \E s \in S, T \in Types : New(s, T)

Rename(S) ==
    \E s \in S, n \in Names : Name(s, n)

Erase(S) ==
    \E s \in S : Build(s)

Constructors(S) ==
    \/ \E s \in S, T \in Types, f \in CtorFns : WithConstructor(s, T, f)
    \/ \E s \in S, f \in CtorFns : SetConstructor(s, f)

EqualityChecks(S) ==
    \/ \E s \in S, f \in EqFns : SetEqualityCheck(s, f)
    \/ \E s \in S : WithEqualityCheck(s)

Registrations(S) ==
    \/ \E s \in S, n \in MethodNames, f \in Impls : AddAttributeGetter(s, n, f)
    \/ \E s \in S, n \in MethodNames, f \in Impls : AddMethod(s, n, f)
    \/ \E s \in S, n \in MethodNames, f \in Impls : AddIteratorMethod(s, n, f)
    \/ \E s \in S, n \in MethodNames, f \in Impls : AddClassMethod(s, n, f)

Casts(S) ==
    \E s \in S, p \in Payloads : CastToInstance(s, p)

Inits(S) ==
    \E s \in S, fields \in ArgLists : InitCall(s, fields)

InstanceChecks(S) ==
    \E s \in S, i \in DOMAIN instances : IsInstanceCall(s, i)

EqualsCalls(S) ==
    \/ \E s \in S, i \in DOMAIN instances, j \in DOMAIN instances :
           EqualsCall(s, i, j)
    \/ \E i \in DOMAIN instances, j \in DOMAIN instances : InstanceEqualsCall(i, j)

Conversions(S) ==
    \E s \in S : ToPolarValue(s)

\* One descriptor, and every operation that changes it or creates an instance
\* of it: the whole builder and both construction paths.
Next ==
    \/ Create({1})
    \/ Rename({1})
    \/ Erase({1})
    \/ Constructors({1})
    \/ EqualityChecks({1})
    \/ Registrations({1})
    \/ Casts({1})
    \/ Inits({1})

Spec == Init /\ [][Next]_vars

\* Two descriptors, and the operations that write or read what equality
\* depends on: name, equality_check, the type parameter and the instances.
NextEq ==
    \/ Create(Slots)
    \/ Rename(Slots)
    \/ Erase(Slots)
    \/ EqualityChecks(Slots)
    \/ Casts(Slots)
    \/ EqualsCalls(Slots)

SpecEq == Init /\ [][NextEq]_vars

\* Two descriptors, and the operations that write or read what init and
\* is_instance depend on: name, constructor, the type parameter and the
\* instances.
NextInit ==
    \/ Create(Slots)
    \/ Rename(Slots)
    \/ Erase(Slots)
    \/ Constructors(Slots)
    \/ Casts(Slots)
    \/ Inits(Slots)
    \/ InstanceChecks(Slots)

SpecInit == Init /\ [][NextInit]_vars

\* Two descriptors, and the operations that write or read the method tables:
\* the registrations and the class-as-value conversion.
NextTables ==
    \/ Create(Slots)
    \/ Rename(Slots)
    \/ Erase(Slots)
    \/ Registrations(Slots)
    \/ Conversions(Slots)

SpecTables == Init /\ [][NextTables]_vars

\* ------------------------------------------------------ ToPolarResults
\* The values to_polar_results is implemented for, as tagged records:
\*   a plain ToPolar value, Option<C>, Result<C, E> and PolarIter<I, Iter>.
Plain(v) == [tag |-> "plain", v |-> v]
SomeOf(x) == [tag |-> "some", x |-> x]
NoneOf == [tag |-> "none"]
OkOf(x) == [tag |-> "ok", x |-> x]
ErrOf(e) == [tag |-> "err", e |-> e]
PolarIter(items) == [tag |-> "iter", items |-> items]

\* the elements of a PolarResultIter
Success(v) == [ok |-> TRUE, value |-> v]
Failure(message) == [ok |-> FALSE, kind |-> "Custom", message |-> message]

\* the error values E of the modelled methods, and E::to_string
Errors == {404, 500}
Digits == <<"0", "1", "2", "3", "4", "5", "6", "7", "8", "9">>
RECURSIVE to_string(_)
to_string(e) ==
    IF e < 10 THEN <<Digits[e + 1]>>
    ELSE Append(to_string(e \div 10), Digits[(e % 10) + 1])

\* impl ToPolarResults for C: iter::once(Ok(self.clone()))
PlainResults(v) == <<Success(v)>>

\* the Err arm of impl ToPolarResults for Result<C, E>
ErrResultsEmpty(e) == <<>>
ErrResults(e) == <<Failure(to_string(e))>>

\* the None arm of impl ToPolarResults for Option<C>
NoneResultsFailure == <<Failure(<<"none">>)>>
NoneResults == <<>>

\* flat_map: the concatenation of the sequences of the elements, in order
RECURSIVE FlatMapUntilEmpty(_, _)
FlatMapUntilEmpty(f, items) ==
    IF items = <<>> \/ f[Head(items)] = <<>> THEN <<>>
    ELSE f[Head(items)] \o FlatMapUntilEmpty(f, Tail(items))
RECURSIVE FlatMap(_, _)
FlatMap(f, items) ==
    IF items = <<>> THEN <<>>
    ELSE f[Head(items)] \o FlatMap(f, Tail(items))

Range(seq) == {seq[i] : i \in DOMAIN seq}

\* to_polar_results, by the implementation the value's type selects
RECURSIVE to_polar_results(_)
to_polar_results(x) ==
    CASE x.tag = "plain" -> PlainResults(x.v)
      [] x.tag = "ok"    -> to_polar_results(x.x)
      [] x.tag = "err"   -> ErrResults(x.e)
      [] x.tag = "some"  -> to_polar_results(x.x)
      [] x.tag = "none"  -> NoneResults
      [] x.tag = "iter"  ->
            FlatMap([e \in Range(x.items) |-> to_polar_results(e)], x.items)

\* the values of the types V, Option<V>, Result<V, E>, Option<Result<V, E>>
\* and Result<Option<V>, E> for V = i32
IntVals == {1, 3}
PlainVals == {Plain(v) : v \in IntVals}
OptionOf(S) == {NoneOf} \cup {SomeOf(x) : x \in S}
ResultOf(S) == {OkOf(x) : x \in S} \cup {ErrOf(e) : e \in Errors}
ElementTypes ==
    {PlainVals, OptionOf(PlainVals), ResultOf(PlainVals),
     OptionOf(ResultOf(PlainVals)), ResultOf(OptionOf(PlainVals))}

SeqsUpTo(S, n) == UNION {[1..k -> S] : k \in 0..n}

\* the iterators of at most MaxLen elements, all elements of one type
PolarIters == UNION {{PolarIter(q) : q \in SeqsUpTo(S, MaxLen)} : S \in ElementTypes}

\* every value to_polar_results is called on
Inputs ==
    (UNION ElementTypes) \cup PolarIters
        \cup {OkOf(PolarIter(q)) : q \in SeqsUpTo(OptionOf(PlainVals), 2)}

\* the caller takes the PolarResultIter of a value
ToPolarResultsCall ==
    /\ pc = "start"
    /\ iter' = to_polar_results(input)
    /\ pc' = "iterating"
    /\ UNCHANGED <<input, yielded, classVars>>

\* the caller takes the next element of the PolarResultIter
IterNext ==
    /\ pc = "iterating"
    /\ iter # <<>>
    /\ yielded' = Append(yielded, Head(iter))
    /\ iter' = Tail(iter)
    /\ UNCHANGED <<input, pc, classVars>>

\* the PolarResultIter returns None
IterEnd ==
    /\ pc = "iterating"
    /\ iter = <<>>
    /\ pc' = "done"
    /\ UNCHANGED <<input, iter, yielded, classVars>>

InitConv ==
    /\ classes = [s \in Slots |-> NoClass]
    /\ type_class = MetaClass(EmptyTable)
    /\ instances = <<>>
    /\ ret = Self
    /\ ops = 0
    /\ registered = [s \in Slots |-> NoRegistrations]
    /\ built = [s \in Slots |-> NoClass]
    /\ origin = <<>>
    /\ converted = {}
    /\ input \in Inputs
    /\ iter = <<>>
    /\ yielded = <<>>
    /\ pc = "start"

NextConv ==
    \/ ToPolarResultsCall
    \/ IterNext
    \/ IterEnd

SpecConv == InitConv /\ [][NextConv]_vars

\* ================================================================ claims

\* ---------------------------------------------------------------- C1
\* C1 (as claimed): a descriptor on which no equality check was ever set
\* answers Class::equals and Instance::equals, for every pair of payloads,
\* with UnsupportedOperation whose operation is "equals" and whose type name
\* is the descriptor's name, also after the descriptor was renamed.
C1_UnsupportedNamesDescriptor ==
    /\ \A s \in Slots :
        (classes[s] # NoClass /\ classes[s].equality_check.kind = "unsupported")
        => \A i \in DOMAIN instances, j \in DOMAIN instances :
              equals(classes[s], instances[i], instances[j])
                  = UnsupportedOperation("equals", classes[s].name)
    /\ \A i \in DOMAIN instances :
        instances[i].class.equality_check.kind = "unsupported"
        => \A j \in DOMAIN instances :
              Instance_equals(instances[i], instances[j])
                  = UnsupportedOperation("equals", instances[i].class.name)

\* ---------------------------------------------------------------- C2
\* C2: init on a descriptor without a constructor returns the missing
\* constructor error carrying the descriptor's current name and no Instance;
\* init returns an Instance only when a constructor is set and its invocation
\* succeeded, and a failing invocation is returned as the error.
C2_InitMissingConstructor ==
    ret.op = "init" =>
        LET c == classes[ret.slot]
            r == ret.result
        IN  /\ c.constructor = None =>
                /\ r = Custom(<<"MissingConstructorError: ", c.name, " has no constructor">>)
                /\ ~r.ok
                /\ "value" \notin DOMAIN r
            /\ r.ok =>
                /\ c.constructor # None
                /\ Invoke(c.constructor, ret.fields).ok
                /\ r.value = instances[Len(instances)]
                /\ r.value.instance = Invoke(c.constructor, ret.fields).value
            /\ (c.constructor # None /\ ~Invoke(c.constructor, ret.fields).ok) =>
                r = Invoke(c.constructor, ret.fields)

\* init has answered for a renamed descriptor that has no constructor
C2_Witness ==
    /\ ret.op = "init"
    /\ classes[ret.slot].constructor = None
    /\ classes[ret.slot].name \in Names
    /\ ~ret.result.ok

\* ---------------------------------------------------------------- C3
\* C3: to_polar_results of Err(e) yields exactly one element, a failure with
\* e's message; of Ok(v) it yields exactly the sequence of v.
C3_ResultSequence ==
    pc # "start" =>
        LET results == yielded \o iter IN
        /\ input.tag = "err" =>
            /\ Len(results) = 1
            /\ ~results[1].ok
            /\ results = <<Failure(to_string(input.e))>>
        /\ input.tag = "ok" =>
            /\ results = to_polar_results(input.x)
            /\ input.x.tag = "plain" => results = <<Success(input.x.v)>>

\* an Err has been converted and its one failure taken
C3_Witness ==
    /\ pc = "done"
    /\ input = ErrOf(404)
    /\ yielded = <<Failure(<<"4", "0", "4">>)>>

\* ---------------------------------------------------------------- C4
\* the concatenation of the elements' own sequences, in order
RECURSIVE ConcatOfElements(_)
ConcatOfElements(items) ==
    IF items = <<>> THEN <<>>
    ELSE ConcatOfElements(SubSeq(items, 1, Len(items) - 1))
            \o to_polar_results(items[Len(items)])

IsSome(e) == e.tag = "some"

\* C4: to_polar_results of a PolarIter yields the in-order concatenation of
\* the elements' sequences: None contributes nothing, Some(v) contributes v,
\* Err contributes one failure at its position, and the elements after a None
\* or an Err are still yielded; [Some(1), None, Some(3)] yields [1, 3].
C4_IteratorFlattening ==
    (pc # "start" /\ input.tag = "iter") =>
        LET results == yielded \o iter
            items == input.items
        IN
        /\ results = ConcatOfElements(items)
        /\ Range(items) \subseteq OptionOf(PlainVals) =>
            LET present == SelectSeq(items, IsSome) IN
            results = [k \in 1..Len(present) |-> Success(present[k].x.v)]
        /\ Range(items) \subseteq ResultOf(PlainVals) =>
            results = [k \in 1..Len(items) |->
                          IF items[k].tag = "ok"
                          THEN Success(items[k].x.v)
                          ELSE Failure(to_string(items[k].e))]
        /\ Range(items) \subseteq PlainVals =>
            results = [k \in 1..Len(items) |-> Success(items[k].v)]
        /\ items = <<SomeOf(Plain(1)), NoneOf, SomeOf(Plain(3))>> =>
            results = <<Success(1), Success(3)>>

\* the iterator [Some(1), None, Some(3)] has been converted and consumed
C4_Witness ==
    /\ pc = "done"
    /\ input = PolarIter(<<SomeOf(Plain(1)), NoneOf, SomeOf(Plain(3))>>)
    /\ yielded = <<Success(1), Success(3)>>

\* ---------------------------------------------------------------- C5
\* C5: each of the three tables maps every registered name to the most
\* recent registration of that name into that table (add_method and
\* add_iterator_method share instance_methods), with one entry per name, and
\* a registration into one table leaves the other two as they were.
C5_LastWriteWins ==
    \A s \in Slots :
        classes[s] # NoClass =>
            /\ classes[s].attributes = registered[s].attributes
            /\ classes[s].instance_methods = registered[s].instance_methods
            /\ classes[s].class_methods = registered[s].class_methods

\* a name was registered twice into instance_methods, by add_method and then
\* by add_iterator_method
C5_Witness ==
    \E s \in Slots :
        /\ classes[s] # NoClass
        /\ registered[s].collisions > 0
        /\ "m" \in DOMAIN classes[s].instance_methods
        /\ classes[s].instance_methods["m"] = InstanceMethodNewIterator(2)

\* ---------------------------------------------------------------- C6
\* C6: D.is_instance(i) is true exactly when i's payload is a value of D's
\* native type, whatever descriptor created i and whatever i's name is.
C6_IsInstanceByPayload ==
    /\ \A s \in Slots :
        classes[s] # NoClass =>
            \A i \in DOMAIN instances :
                is_instance(classes[s], instances[i])
                    <=> (instances[i].instance.ty = classes[s].type_id)
    /\ ret.op = "is_instance" =>
        ret.result = (instances[ret.a].instance.ty = classes[ret.slot].type_id)

\* D has accepted an instance that a descriptor of another type created
C6_Witness ==
    /\ ret.op = "is_instance"
    /\ ret.result = TRUE
    /\ instances[ret.a].class.type_id # classes[ret.slot].type_id
    /\ instances[ret.a].name # classes[ret.slot].name

\* ---------------------------------------------------------------- C7
\* C7: an Instance is a snapshot: no later operation on its descriptor
\* changes the instance's name, attributes, methods or class.
C7_InstanceIsSnapshot ==
    [][\A i \in DOMAIN instances :
          /\ i \in DOMAIN instances'
          /\ instances'[i] = instances[i]]_vars

\* an instance whose descriptor was changed after the instance was created
C7_Witness ==
    \E i \in DOMAIN instances :
        /\ origin[i] = 1
        /\ instances[i].class # classes[1]
        /\ instances[i].methods # classes[1].instance_methods

\* ---------------------------------------------------------------- C8
\* C8 (as claimed): for a descriptor D of native type T with an equality
\* check f set, D.equals(a, b) is Ok(f(pa, pb)) exactly when both payloads
\* are values of T and a DowncastFailed user error otherwise; and
\* Instance::equals(a, b) is a.class.equals(a, b).
C8_EqualsOnNativeType ==
    /\ \A s \in Slots :
        (classes[s] # NoClass /\ classes[s].equality_check.kind = "check")
        => \A i \in DOMAIN instances, j \in DOMAIN instances :
            LET c == classes[s]
                pa == instances[i].instance
                pb == instances[j].instance
                r == equals(c, instances[i], instances[j])
            IN  IF pa.ty = c.type_id /\ pb.ty = c.type_id
                THEN r = Ok(ApplyEqFn(c.equality_check.f, pa, pb))
                ELSE ~r.ok /\ r.kind = "DowncastFailed" /\ r.user
    /\ \A i \in DOMAIN instances, j \in DOMAIN instances :
        Instance_equals(instances[i], instances[j])
            = equals(instances[i].class, instances[i], instances[j])

\* ---------------------------------------------------------------- C9
\* C9 (as claimed): once build() has erased a descriptor, its name,
\* constructor, tables and checks stay as build() returned them.
C9_ErasedIsImmutable ==
    \A s \in Slots : built[s] # NoClass => classes[s] = built[s]

\* ---------------------------------------------------------------- C10
\* the state part of C10: the table holds every class-method name converted
\* so far, and the term returned by a conversion has repr type<NAME>
C10_Holds ==
    /\ converted \subseteq DOMAIN type_class.instance_methods
    /\ ret.op = "to_polar_value" =>
        /\ ret.value.repr = <<"type<", classes[ret.slot].name, ">">>
        /\ ret.value.constructor = None
        /\ DOMAIN classes[ret.slot].class_methods
               \subseteq DOMAIN type_class.instance_methods

\* the step part of C10: entries present are never replaced or removed, new
\* entries are the synthesized ones, a conversion leaves the descriptors as
\* they were, and converting class methods already converted changes nothing
C10_Step ==
    LET old == type_class.instance_methods
        new == type_class'.instance_methods
    IN  /\ \A n \in DOMAIN old : n \in DOMAIN new /\ new[n] = old[n]
        /\ \A n \in DOMAIN new \ DOMAIN old :
               new[n] = InstanceMethodFromClassMethod(n)
        /\ Len(instances') > Len(instances) =>
            /\ classes' = classes
            /\ ret'.op = "to_polar_value"
            /\ DOMAIN classes[ret'.slot].class_methods \subseteq converted
                   => new = old

\* C10: in every state the meta-descriptor's table covers the class methods
\* converted so far and the returned term's repr is type<NAME>, and every
\* step patches the table by insert-if-absent and leaves the converted
\* descriptor unchanged.
C10_MetaInsertIfAbsent == []C10_Holds /\ [][C10_Step]_vars

\* a descriptor with class method m was converted twice, and the entry m the
\* meta-descriptor was registered with is still the registered one
C10_Witness ==
    /\ Cardinality(Meta) = 2
    /\ "m" \in converted
    /\ type_class.instance_methods["m"] = InstanceMethodNew(1)
    /\ ret.op = "to_polar_value"
====
